---- MODULE Spec2Model ----
(***************************************************************************)
(* Toolbar panels of leafmap (leafmap/toolbar.py): the hover / pin panel   *)
(* machine shared by main_toolbar, tool_template, census_widget,           *)
(* search_basemaps and download_osm, the tool grid of the main toolbar,    *)
(* the open / close handlers that attach and detach the controls of the   *)
(* tools on the map, the time slider with its playback threads, the        *)
(* handlers that add layers to the map (census, open data) or list them    *)
(* (layers view), and the OK handler of the save-map panel.                *)
(*                                                                         *)
(* A widget trait assignment that does not change the value fires no       *)
(* observer; one that changes it runs the observers synchronously, inside  *)
(* the assigning handler.  Every action below is one handler run to        *)
(* completion, nested observer calls included.                             *)
(***************************************************************************)
EXTENDS Integers, Sequences, FiniteSets, Bags, TLC

\* Bound on the number of tool activations (panel constructions) of one run.
MaxOpens == 2

\* Bound on the number of time_slider calls made from the notebook.
MaxSliders == 1

\* Bound on the number of play clicks (playback threads started) of one run.
MaxTasks == 2

\* The number N of labels (entries of layers_dict) of a time slider.
NLabels == 3

\* Bound on the number of layers added from the handlers of the panels.
MaxLayers == 2

Ids == 0 .. MaxOpens

\* The keys of the `tools` dictionary of main_toolbar, by tool name.
Tools ==
    {"basemap", "split_map", "planet", "open_data", "whitebox", "timeslider",
     "eraser", "save_map", "census", "search_xyz", "download_osm", "help"}

\* The panels built on the hover / pin template, which share m.tool_control.
PanelKinds == {"tool_template", "census", "search_xyz", "download_osm"}

\* The panels with a mouseenter / mouseleave source.
HoverKinds == PanelKinds \cup {"main_toolbar"}

\* The panels whose footer has an Apply / Reset / Close button group.
ButtonsKinds == {"tool_template", "search_xyz", "download_osm"}

\* The two child lists a panel's toolbar_widget is ever given.
Collapsed == <<"toolbar_button">>
Expanded == <<"toolbar_header", "toolbar_footer">>

\* A control object: the activation that built it and what it shows.
Ctl(n, r) == [id |-> n, role |-> r]
NoCtrl == [id |-> 0, role |-> "None"]
MainCtl == Ctl(0, "main_toolbar")

\* The built-in ipyleaflet.LayersControl kept in m.layer_control.
LayersCtl == Ctl(0, "LayersControl")

\* A layer object: the panel that added it, what it shows, and the number of
\* the handler run that added it (0 for a layer added by a constructor).
Lyr(n, r, k) == [id |-> n, role |-> r, k |-> k]

\* The basemap tile layer a map is built with.
BaseLayer == Lyr(0, "basemap", 0)

\* The names of the basemap library that the model tells apart, and the
\* layer object leafmap_basemaps[b]: one object for each name.
BasemapNames == {"OpenStreetMap", "ROADMAP"}
Basemap(b) == Lyr(0, b, 0)

\* The lists a constructor keeps in its local names `controls` and `layers`.
Saved(ctrls, lyrs) == [controls |-> ctrls, layers |-> lyrs]
NoneSaved == Saved(<<>>, <<>>)

\* The class of a layer: add_census_data adds a WMSLayer, add_shp and
\* add_geojson a GeoJSON layer, the others a TileLayer.
LayerClass(l) ==
    IF l.role = "census" THEN "WMSLayer"
    ELSE IF l.role = "vector" THEN "GeoJSON"
    ELSE "TileLayer"

\* The two child lists of save_map_widget before a click on OK (lines 1031
\* and 986) and the one after a mismatch (line 1015).
SaveBare == <<"save_type", "file_chooser">>
SaveReady == <<"save_type", "file_chooser", "ok_cancel">>
SaveMismatch == <<"save_type", "file_chooser", "label">>

\* A call made outside the panels, or an exception raised to the caller.
Call(fn, args) == [fn |-> fn, args |-> args]

----------------------------------------------------------------------------
\* The numeric text fields of the raster options (band, vmin, vmax, nodata).

Digits == {"0", "1", "2", "3", "4", "5", "6", "7", "8", "9"}

DigitVal ==
    "0" :> 0 @@ "1" :> 1 @@ "2" :> 2 @@ "3" :> 3 @@ "4" :> 4 @@
    "5" :> 5 @@ "6" :> 6 @@ "7" :> 7 @@ "8" :> 8 @@ "9" :> 9

\* The texts the band field is given: empty, an integer, a decimal (which
\* int() does not take); and the texts vmin, vmax and nodata are given:
\* empty, a decimal, not a number.
BandTexts == {<<>>, <<"7">>, <<"2", ".", "5">>}
FloatTexts == {<<>>, <<"2", ".", "5">>, <<"x">>}

\* None, and the value of a parsed field: <<n>> for an int, <<digits,
\* decimals>> for a float (2.5 is <<25, 1>>).
None == <<>>

\* int(s) does not raise: decimal digits only.
int_ok(s) == Len(s) > 0 /\ \A i \in DOMAIN s : s[i] \in Digits

RECURSIVE int_val(_)
int_val(s) ==
    IF s = <<>> THEN 0
    ELSE 10 * int_val(SubSeq(s, 1, Len(s) - 1)) + DigitVal[s[Len(s)]]

\* float(s) does not raise: digits with at most one point, a digit at least.
float_ok(s) ==
    /\ \A i \in DOMAIN s : s[i] \in Digits \cup {"."}
    /\ Cardinality({i \in DOMAIN s : s[i] = "."}) <= 1
    /\ \E i \in DOMAIN s : s[i] \in Digits

float_val(s) ==
    LET dot == {i \in DOMAIN s : s[i] = "."}
        ds == SelectSeq(s, LAMBDA c : c \in Digits)
    IN  <<int_val(ds),
          IF dot = {} THEN 0 ELSE Len(s) - (CHOOSE i \in dot : TRUE)>>

raster_parse_notry(b, lo, hi, nd) ==
    [band |-> None, vmin |-> None, vmax |-> None, nodata |-> None,
     raised |-> \/ (Len(b) > 0 /\ ~int_ok(b))
                \/ \E f \in {lo, hi, nd} : Len(f) > 0 /\ ~float_ok(f)]

\* Lines 823-838: the four fields are parsed in order inside one try block
\* whose bare except passes; the first field that does not parse ends the
\* block, with the fields parsed before it kept and the others left None.
raster_parse(b, lo, hi, nd) ==
    LET f0 == [band |-> None, vmin |-> None, vmax |-> None, nodata |-> None,
               raised |-> FALSE]
        f1 == IF Len(b) > 0 THEN [f0 EXCEPT !.band = <<int_val(b)>>] ELSE f0
        f2 == IF Len(lo) > 0 THEN [f1 EXCEPT !.vmin = float_val(lo)] ELSE f1
        f3 == IF Len(hi) > 0 THEN [f2 EXCEPT !.vmax = float_val(hi)] ELSE f2
        f4 == IF Len(nd) > 0 THEN [f3 EXCEPT !.nodata = float_val(nd)] ELSE f3
    IN  IF Len(b) > 0 /\ ~int_ok(b) THEN f0
        ELSE IF Len(lo) > 0 /\ ~float_ok(lo) THEN f1
        ELSE IF Len(hi) > 0 /\ ~float_ok(hi) THEN f2
        ELSE IF Len(nd) > 0 /\ ~float_ok(nd) THEN f3
        ELSE f4

\* What Apply reads: the extension of the path, the file type and the
\* texts of the four numeric fields.
Fields(ext, ftype, b, lo, hi, nd) ==
    [ext |-> ext, ftype |-> ftype, bands |-> b, vmin |-> lo, vmax |-> hi,
     nodata |-> nd]

\* Line 820, `ext.lower() in [".tif", "img"]`, for an extension as
\* os.path.splitext returns it (with its dot).
raster_ext(ext) == ext \in {".tif", "img"}

VARIABLES
    controls,          \* m.controls, in order
    nOpen,             \* number of activations so far; the next panel is nOpen + 1
    kind,              \* kind[p]: which function built panel p ("none": not built)
    pin,               \* pin[p]: toolbar_button.value of panel p
    cbtn,              \* cbtn[p]: close_button.value (layers_button.value for p = 0)
    children,          \* children[p]: toolbar_widget.children of panel p
    closed,            \* closed[p]: the panel's widget has been close()d
    footer,            \* main toolbar: toolbar_footer.children, "grid" or "layers"
    flags,             \* flags[t]: value of the grid button of tool t
    tool_control,      \* m.tool_control
    basemap_ctrl,      \* m.basemap_ctrl
    save_map_control,  \* m.save_map_control
    tool_output_ctrl,  \* m.tool_output_ctrl
    slider_ctrl,       \* m.slider_ctrl
    whitebox,          \* m.whitebox
    splitSaved,        \* splitSaved[p]: the `controls` and `layers` captured by constructor call p
    pointer,           \* the panels the pointer is over (at most one)
    fired,             \* the panels whose close action has run
    raised,            \* the last handler or task step ended by raising
    play_chk,          \* play_chk[p]: play_chk.value of time-slider panel p
    slider,            \* slider[p]: slider.value, the index
    label,             \* label[p]: i when label.value is labels[i-1]
    layer,             \* layer[p]: i when the layer shows the i-th entry of layers_dict
    custom,            \* custom[p]: labels were given and are not the keys of layers_dict
    tasks,             \* the live playback threads, a bag of [panel, pc, tmp]
    nTasks,            \* number of playback threads started so far
    layers,            \* m.layers, in order
    nLyr,              \* number of layers added from a panel's handlers so far
    layer_control,     \* m.layer_control
    fields,            \* open-data panel: what the last Apply read from the widgets
    dropdown,          \* dropdown[p]: dropdown.value of basemap panel p
    calls              \* what the last handler or task step called outside the panels

panelVars == <<pin, cbtn, children, closed, footer>>
sliderVars == <<play_chk, slider, label, layer, custom, tasks, nTasks>>
layerVars == <<layers, nLyr, layer_control, fields, dropdown>>
slotVars ==
    <<tool_control, basemap_ctrl, save_map_control, tool_output_ctrl,
      slider_ctrl, whitebox>>
vars ==
    <<controls, nOpen, kind, pin, cbtn, children, closed, footer, flags,
      tool_control, basemap_ctrl, save_map_control, tool_output_ctrl,
      slider_ctrl, whitebox, splitSaved, pointer, fired, raised, play_chk, slider, label, layer,
      custom, tasks, nTasks, layers, nLyr, layer_control, fields, dropdown,
      calls>>

----------------------------------------------------------------------------
\* The map's control list (ipyleaflet.Map.controls).

InControls(ctrls, c) == \E i \in DOMAIN ctrls : ctrls[i] = c

\* m.add_control(c)
add_control(ctrls, c) == Append(ctrls, c)

\* m.remove_control(c), for a control on the map
remove_control(ctrls, c) == SelectSeq(ctrls, LAMBDA x : x # c)

\* m.add_layer(l), and the add_* methods of the map that end in it.
add_layer(lyrs, l) == Append(lyrs, l)

\* m.toolbar_reset(): no tool of the grid stays selected.
toolbar_reset == [t \in Tools |-> FALSE]

OwnCtl(p) == Ctl(p, kind[p])

\* The panels of ps that are still on screen with control list ctrls and
\* closed widgets cl: the pointer is over no panel that is gone.
OnScreen(ps, ctrls, cl) ==
    {q \in ps : ~cl[q] /\ InControls(ctrls, OwnCtl(q))}

\* The panel is on screen: built, widget not closed, control on the map.
Displayed(p) ==
    /\ kind[p] # "none"
    /\ ~closed[p]
    /\ InControls(controls, OwnCtl(p))

----------------------------------------------------------------------------
\* The hover / pin machine.

\* Variants of the handlers with one plausible slip each.
handle_toolbar_event_inverted(type, pinned, ch) ==
    IF type = "mouseenter" THEN Expanded
    ELSE IF type = "mouseleave" /\ pinned THEN Collapsed
    ELSE ch

handle_toolbar_event_nopin(type, pinned, ch) ==
    IF type = "mouseenter" THEN Expanded
    ELSE IF type = "mouseleave" THEN Collapsed
    ELSE ch

handle_toolbar_event_header(type, pinned, ch) ==
    IF type = "mouseenter" THEN <<"toolbar_header">>
    ELSE IF type = "mouseleave" /\ ~pinned THEN Collapsed
    ELSE ch

toolbar_btn_click_inverted(new, closeval, ch) ==
    IF new THEN Expanded
    ELSE IF closeval THEN Collapsed
    ELSE ch

toolbar_btn_click_noop(new, closeval, ch) ==
    IF new THEN Expanded
    ELSE ch

\* handle_toolbar_event: the child list after a pointer event of type `type`
\* on a panel whose toolbar_button.value is `pinned` and child list is `ch`.
handle_toolbar_event(type, pinned, ch) ==
    IF type = "mouseenter" THEN Expanded
    ELSE IF type = "mouseleave" /\ ~pinned THEN Collapsed
    ELSE ch

\* toolbar_btn_click: the child list after toolbar_button.value changed to
\* `new`, read after line 146 for new = TRUE; `closeval` is close_button.value
\* (layers_button.value in main_toolbar) at the time the handler reads it.
toolbar_btn_click(new, closeval, ch) ==
    IF new THEN Expanded
    ELSE IF ~closeval THEN Collapsed
    ELSE ch

Init ==
    /\ controls = <<MainCtl>>
    /\ nOpen = 0
    /\ kind = [p \in Ids |-> IF p = 0 THEN "main_toolbar" ELSE "none"]
    /\ pin = [p \in Ids |-> FALSE]
    /\ cbtn = [p \in Ids |-> FALSE]
    /\ children = [p \in Ids |-> Collapsed]
    /\ closed = [p \in Ids |-> FALSE]
    /\ footer = "grid"
    /\ flags = [t \in Tools |-> FALSE]
    /\ tool_control = NoCtrl
    /\ basemap_ctrl = NoCtrl
    /\ save_map_control = NoCtrl
    /\ tool_output_ctrl = NoCtrl
    /\ slider_ctrl = NoCtrl
    /\ whitebox = NoCtrl
    /\ splitSaved = [p \in Ids |-> NoneSaved]
    /\ pointer = {}
    /\ fired = {}
    /\ raised = FALSE
    /\ play_chk = [p \in Ids |-> FALSE]
    /\ slider = [p \in Ids |-> 1]
    /\ label = [p \in Ids |-> 1]
    /\ layer = [p \in Ids |-> 1]
    /\ custom = [p \in Ids |-> FALSE]
    /\ tasks = EmptyBag
    /\ nTasks = 0
    /\ layers = <<BaseLayer>>
    /\ nLyr = 0
    /\ layer_control = NoCtrl
    /\ fields = Fields("", "Shapefile", <<>>, <<>>, <<>>, <<>>)
    /\ dropdown = [p \in Ids |-> "OpenStreetMap"]
    /\ calls = {}

\* A mouseenter event of the panel's ipyevents source is delivered (the
\* pointer is over no other panel; the event may repeat).
PointerEnter(p) ==
    /\ kind[p] \in HoverKinds
    /\ Displayed(p)
    /\ pointer \subseteq {p}
    /\ children' =
         [children EXCEPT ![p] = handle_toolbar_event("mouseenter", pin[p], @)]
    /\ pointer' = {p}
    /\ raised' = FALSE
    /\ calls' = {}
    /\ UNCHANGED <<controls, nOpen, kind, pin, cbtn, closed, footer, flags,
                   slotVars, splitSaved, fired, sliderVars, layerVars>>

\* A mouseleave event is delivered (it may repeat).  With the pin off the handler also
\* assigns False to toolbar_button and to close_button / layers_button; in
\* main_toolbar a layers_button going off shows the grid again (line 501).
PointerLeave(p) ==
    /\ kind[p] \in HoverKinds
    /\ Displayed(p)
    /\ children' =
         [children EXCEPT ![p] = handle_toolbar_event("mouseleave", pin[p], @)]
    /\ cbtn' = IF pin[p] THEN cbtn ELSE [cbtn EXCEPT ![p] = FALSE]
    /\ footer' = IF p = 0 /\ ~pin[p] /\ cbtn[p] THEN "grid" ELSE footer
    /\ pointer' = pointer \ {p}
    /\ raised' = FALSE
    /\ calls' = {}
    /\ UNCHANGED <<controls, nOpen, kind, pin, closed, flags, slotVars,
                   splitSaved, fired, sliderVars, layerVars>>

PinToggle_exclusive(p) ==
    /\ kind[p] \in HoverKinds
    /\ Displayed(p)
    /\ pin' = [q \in Ids |-> IF q = p THEN ~pin[p] ELSE pin[q] /\ pin[p]]
    /\ cbtn' = IF ~pin[p] THEN [cbtn EXCEPT ![p] = FALSE] ELSE cbtn
    /\ footer' = IF p = 0 /\ ~pin[p] /\ cbtn[p] THEN "grid" ELSE footer
    /\ children' =
         [children EXCEPT ![p] = toolbar_btn_click(~pin[p], cbtn'[p], @)]
    /\ raised' = FALSE
    /\ calls' = {}
    /\ UNCHANGED <<controls, nOpen, kind, closed, flags, slotVars,
                   splitSaved, pointer, fired, sliderVars, layerVars>>

\* The user toggles the pin (toolbar_button) of a displayed panel.
PinToggle(p) ==
    /\ kind[p] \in HoverKinds
    /\ Displayed(p)
    /\ pin' = [pin EXCEPT ![p] = ~pin[p]]
    /\ cbtn' = IF ~pin[p] THEN [cbtn EXCEPT ![p] = FALSE] ELSE cbtn
    /\ footer' = IF p = 0 /\ ~pin[p] /\ cbtn[p] THEN "grid" ELSE footer
    /\ children' =
         [children EXCEPT ![p] = toolbar_btn_click(~pin[p], cbtn'[p], @)]
    /\ raised' = FALSE
    /\ calls' = {}
    /\ UNCHANGED <<controls, nOpen, kind, closed, flags, slotVars,
                   splitSaved, pointer, fired, sliderVars, layerVars>>

\* The pin, close flag and child list of panel p.
PanelState(p) == [pin |-> pin[p], cbtn |-> cbtn[p], children |-> children[p]]

toolbar_button_assign_toggle(v, st) ==
    [pin |-> v, cbtn |-> st.cbtn,
     children |-> IF st.children = Expanded THEN Collapsed ELSE Expanded]

\* toolbar_button.value = v on a panel in state st.  toolbar_btn_click is
\* registered with observe(..., "value"): it runs only when the value changes.
toolbar_button_assign(v, st) ==
    IF v = st.pin
    THEN st
    ELSE LET c == IF v THEN FALSE ELSE st.cbtn
         IN  [pin |-> v, cbtn |-> c,
              children |-> toolbar_btn_click(v, c, st.children)]

\* The value the pin already has is assigned to it again (as line 139 does
\* on every mouseleave with the pin off, or a repeated delivery of the same
\* pin state).
PinAgain(p) ==
    /\ kind[p] \in HoverKinds
    /\ Displayed(p)
    /\ LET st == toolbar_button_assign(pin[p], PanelState(p))
       IN  /\ pin' = [pin EXCEPT ![p] = st.pin]
           /\ cbtn' = [cbtn EXCEPT ![p] = st.cbtn]
           /\ children' = [children EXCEPT ![p] = st.children]
    /\ raised' = FALSE
    /\ calls' = {}
    /\ UNCHANGED <<controls, nOpen, kind, closed, footer, flags, slotVars,
                   splitSaved, pointer, fired, sliderVars, layerVars>>

----------------------------------------------------------------------------
\* The tool grid of the main toolbar.

tool_callback_flags_noloop(fl, t) == [fl EXCEPT ![t] = TRUE]

\* tool_callback, lines 303-307: the grid flags once button t has gone on and
\* every other button has been assigned False.  A button that was on goes off
\* through its own tool_callback (the else branch), whose m.toolbar_reset()
\* at line 360 clears the whole grid, t included.
tool_callback_flags(fl, t) ==
    IF \E o \in Tools \ {t} : fl[o]
    THEN toolbar_reset
    ELSE [fl EXCEPT ![t] = TRUE]

\* The grid is on screen and takes clicks.
GridShown ==
    /\ Displayed(0)
    /\ children[0] = Expanded
    /\ footer = "grid"

NewPanel_unpinned(n, k) ==
    /\ kind' = [kind EXCEPT ![n] = k]
    /\ controls' = add_control(controls, Ctl(n, k))
    /\ tool_control' = Ctl(n, k)
    /\ nOpen' = n
    /\ UNCHANGED <<pin, children, cbtn, closed, footer>>

\* The state of a hover / pin panel when its constructor returns: built
\* collapsed (lines 111-112), then toolbar_button.value = True (line 186)
\* runs toolbar_btn_click.
NewPanel(n, k) ==
    /\ kind' = [kind EXCEPT ![n] = k]
    /\ pin' = [pin EXCEPT ![n] = TRUE]
    /\ children' =
         [children EXCEPT ![n] = toolbar_btn_click(TRUE, FALSE, Collapsed)]
    /\ controls' = add_control(controls, Ctl(n, k))
    /\ tool_control' = Ctl(n, k)
    /\ nOpen' = n
    /\ UNCHANGED <<cbtn, closed, footer>>

\* A click on a grid button that is on: the value goes off and the else
\* branch of tool_callback resets the grid.
ToolOff(t) ==
    /\ GridShown
    /\ flags[t]
    /\ flags' = toolbar_reset
    /\ raised' = FALSE
    /\ calls' = {}
    /\ UNCHANGED <<controls, nOpen, kind, panelVars, slotVars, splitSaved,
                   pointer, fired, sliderVars, layerVars>>

\* The layers of the map once the constructor of a hover / pin panel has
\* run: census_widget adds the "States" layer of "Census 2020" (line 1269).
ctor_layers(k, n, lyrs) ==
    IF k = "census" THEN add_layer(lyrs, Lyr(n, "census", 0)) ELSE lyrs

\* census, search_xyz, download_osm: a hover / pin panel on m.tool_control.
ToolPanel(t) ==
    /\ GridShown
    /\ t \in PanelKinds \cap Tools
    /\ ~flags[t]
    /\ nOpen < MaxOpens
    /\ NewPanel(nOpen + 1, t)
    /\ layers' = ctor_layers(t, nOpen + 1, layers)
    /\ splitSaved' =
         IF t = "search_xyz"
         THEN [splitSaved EXCEPT ![nOpen + 1] = Saved(<<>>, layers)]
         ELSE splitSaved
    /\ flags' = toolbar_reset
    /\ raised' = FALSE
    /\ calls' = {}
    /\ UNCHANGED <<basemap_ctrl, save_map_control, tool_output_ctrl,
                   slider_ctrl, whitebox, pointer, fired,
                   sliderVars, nLyr, layer_control, fields, dropdown>>

\* layer_change of census_widget (lines 1371-1375): another layer is chosen
\* in the dropdown, with the "Replace existing census data layer" box as
\* `replace`.  m.layers[:-1] drops the last layer of the map.
CensusSelect(p, replace) ==
    /\ kind[p] = "census"
    /\ Displayed(p)
    /\ children[p] = Expanded
    /\ nLyr < MaxLayers
    /\ layers' =
         add_layer(IF replace THEN SubSeq(layers, 1, Len(layers) - 1)
                   ELSE layers,
                   Lyr(p, "census", nLyr + 1))
    /\ nLyr' = nLyr + 1
    /\ raised' = FALSE
    /\ calls' = {}
    /\ UNCHANGED <<controls, nOpen, kind, panelVars, flags, slotVars,
                   splitSaved, pointer, fired, sliderVars, layer_control,
                   fields, dropdown>>

\* The constructors that use the map before they test `m is not None`:
\* census_widget (m.add_census_data, line 1269) and search_basemaps
\* (m.layers, line 1409).
uses_map(k) == k \in {"census", "search_xyz"}

\* tool_template(), census_widget(), search_basemaps() or download_osm()
\* called from the notebook with m = None: the widget is built and returned
\* and no control is made, unless the constructor raises AttributeError on
\* its first use of m.
NoMapCall(k) ==
    /\ k \in PanelKinds
    /\ IF uses_map(k)
       THEN /\ raised' = TRUE
            /\ calls' = {Call("AttributeError", <<>>)}
            /\ UNCHANGED <<nOpen, kind, pin, children>>
       ELSE /\ nOpen < MaxOpens
            /\ nOpen' = nOpen + 1
            /\ kind' = [kind EXCEPT ![nOpen + 1] = k]
            /\ pin' = [pin EXCEPT ![nOpen + 1] = TRUE]
            /\ children' =
                 [children EXCEPT
                    ![nOpen + 1] = toolbar_btn_click(TRUE, FALSE, Collapsed)]
            /\ raised' = FALSE
            /\ calls' = {}
    /\ UNCHANGED <<controls, cbtn, closed, footer, flags, slotVars,
                   splitSaved, pointer, fired, sliderVars, layerVars>>

\* tool_template(m), called from the notebook.
ToolTemplate ==
    /\ nOpen < MaxOpens
    /\ NewPanel(nOpen + 1, "tool_template")
    /\ raised' = FALSE
    /\ calls' = {}
    /\ UNCHANGED <<flags, basemap_ctrl, save_map_control, tool_output_ctrl,
                   slider_ctrl, whitebox, splitSaved, pointer, fired, sliderVars, layerVars>>

\* A layer list that holds one layer twice: Map.layers refuses it.
HasDuplicate(lyrs) ==
    \E i, j \in 1 .. Len(lyrs) : i < j /\ lyrs[i] = lyrs[j]

\* Lines 887-892 of change_basemap: OpenStreetMap is put at index 1 unless
\* the layer at index 1 has that name.
basemap_layers(lyrs) ==
    IF Len(lyrs) = 1
    THEN <<lyrs[1], Basemap("OpenStreetMap")>>
    ELSE IF Len(lyrs) > 1 /\ lyrs[2].role # "OpenStreetMap"
    THEN <<lyrs[1], Basemap("OpenStreetMap")>> \o SubSeq(lyrs, 2, Len(lyrs))
    ELSE lyrs

\* basemap: change_basemap(m).
ToolBasemap ==
    /\ GridShown
    /\ ~flags["basemap"]
    /\ nOpen < MaxOpens
    /\ nOpen' = nOpen + 1
    /\ kind' = [kind EXCEPT ![nOpen + 1] = "basemap"]
    /\ controls' = add_control(controls, Ctl(nOpen + 1, "basemap"))
    /\ basemap_ctrl' = Ctl(nOpen + 1, "basemap")
    /\ layers' = basemap_layers(layers)
    /\ dropdown' = [dropdown EXCEPT ![nOpen + 1] = "OpenStreetMap"]
    /\ flags' = toolbar_reset
    /\ raised' = FALSE
    /\ calls' = {}
    /\ UNCHANGED <<panelVars, tool_control, save_map_control,
                   tool_output_ctrl, slider_ctrl, whitebox, splitSaved,
                   pointer, fired, sliderVars, nLyr, layer_control, fields>>

\* ipyleaflet's Map.substitute_layer: every entry that is `old` becomes
\* `new`.
substitute_layer(lyrs, old, new) ==
    [i \in 1 .. Len(lyrs) |-> IF lyrs[i] = old THEN new ELSE lyrs[i]]

\* on_click of change_basemap (lines 911-914): another name is chosen in
\* the dropdown and the layer at index 1 is replaced by that basemap.
\* m.layers[1] raises IndexError on a map with one layer, and the map
\* refuses a layer list that holds one layer twice.
BasemapSelect(p, b) ==
    /\ kind[p] = "basemap"
    /\ Displayed(p)
    /\ b \in BasemapNames \ {dropdown[p]}
    /\ dropdown' = [dropdown EXCEPT ![p] = b]
    /\ LET new == IF Len(layers) >= 2
                  THEN substitute_layer(layers, layers[2], Basemap(b))
                  ELSE layers
           ok == Len(layers) >= 2 /\ ~HasDuplicate(new)
       IN  /\ layers' = IF ok THEN new ELSE layers
           /\ raised' = ~ok
           /\ calls' = IF Len(layers) < 2 THEN {Call("IndexError", <<>>)}
                       ELSE IF ~ok THEN {Call("LayerException", <<>>)}
                       ELSE {}
    /\ UNCHANGED <<controls, nOpen, kind, panelVars, flags, slotVars,
                   splitSaved, pointer, fired, sliderVars, nLyr,
                   layer_control, fields>>

\* The controls split_basemaps adds after m.clear_controls(), in order.
SplitControls(n) ==
    <<Ctl(n, "split"), Ctl(n, "left"), Ctl(n, "right"), Ctl(n, "close"),
      Ctl(n, "zoom"), Ctl(n, "fullscreen"), Ctl(n, "scale")>>

\* split_map, planet: split_basemaps(m).  planet_tiles() raises without an
\* API key, before split_basemaps is entered; the flag of the tool then
\* stays as tool_callback left it, since line 360 is not reached.
ToolSplit(t) ==
    /\ GridShown
    /\ t \in {"split_map", "planet"}
    /\ ~flags[t]
    /\ \E ok \in BOOLEAN :
         /\ (t = "split_map") => ok
         /\ ok => nOpen < MaxOpens
         /\ raised' = ~ok
         /\ calls' = {}
         /\ IF ok
            THEN /\ nOpen' = nOpen + 1
                 /\ kind' = [kind EXCEPT ![nOpen + 1] = "split"]
                 /\ splitSaved' =
                      [splitSaved EXCEPT ![nOpen + 1] = Saved(controls, layers)]
                 /\ controls' = SplitControls(nOpen + 1)
                 /\ flags' = toolbar_reset
                 /\ pointer' = {}
            ELSE /\ flags' = tool_callback_flags(flags, t)
                 /\ UNCHANGED <<nOpen, kind, splitSaved, controls, pointer>>
    /\ UNCHANGED <<panelVars, slotVars, fired, sliderVars, layerVars>>

open_data_attach_keep(ctrls, oc, c) == add_control(ctrls, c)

\* The control list after open_data_widget: the control in m.tool_output_ctrl
\* is removed when it is on the map (lines 705-706), the new one is added
\* (line 873).
open_data_attach(ctrls, oc, c) ==
    add_control(
      IF oc # NoCtrl /\ InControls(ctrls, oc)
      THEN remove_control(ctrls, oc)
      ELSE ctrls,
      c)

\* open_data: open_data_widget(m), which first detaches the previous
\* open-data control (lines 705-706).
ToolOpenData ==
    /\ GridShown
    /\ ~flags["open_data"]
    /\ nOpen < MaxOpens
    /\ nOpen' = nOpen + 1
    /\ kind' = [kind EXCEPT ![nOpen + 1] = "open_data"]
    /\ controls' =
         open_data_attach(controls, tool_output_ctrl, Ctl(nOpen + 1, "open_data"))
    /\ tool_output_ctrl' = Ctl(nOpen + 1, "open_data")
    /\ flags' = toolbar_reset
    /\ raised' = FALSE
    /\ calls' = {}
    /\ UNCHANGED <<panelVars, tool_control, basemap_ctrl, save_map_control,
                   slider_ctrl, whitebox, splitSaved, pointer, fired, sliderVars, layerVars>>

\* The extensions of the file in the path field ("": the field is blank)
\* and the file types of the toggle that the model tells apart.
Exts == {"", ".shp", ".tif", ".img"}
FileTypes == {"Shapefile", "Raster"}

\* ok_cancel_clicked of open_data_widget for "Apply" (lines 786-854), with
\* the point check off: a shapefile is added with add_shp, a raster with
\* add_local_tile after the numeric fields are parsed; a blank path prints a
\* message and any other file does nothing.  Line 853 resets the grid.
OpenDataApply(p, ext, ftype, b, lo, hi, nd) ==
    /\ kind[p] = "open_data"
    /\ Displayed(p)
    /\ LET f == raster_parse(b, lo, hi, nd)
           branch == IF ext = "" THEN "blank"
                     ELSE IF ext = ".shp" THEN "add_shp"
                     ELSE IF raster_ext(ext) /\ ftype = "Raster"
                     THEN IF f.raised THEN "raise" ELSE "add_local_tile"
                     ELSE "none"
       IN  /\ branch \in {"add_shp", "add_local_tile"} => nLyr < MaxLayers
           /\ raised' = (branch = "raise")
           /\ calls' =
                IF branch = "add_shp" THEN {Call("add_shp", <<>>)}
                ELSE IF branch = "add_local_tile"
                THEN {Call("add_local_tile",
                           <<f.band, f.vmin, f.vmax, f.nodata>>)}
                ELSE {}
           /\ layers' =
                IF branch = "add_shp"
                THEN add_layer(layers, Lyr(p, "vector", nLyr + 1))
                ELSE IF branch = "add_local_tile"
                THEN add_layer(layers, Lyr(p, "raster", nLyr + 1))
                ELSE layers
           /\ nLyr' = IF branch \in {"add_shp", "add_local_tile"}
                      THEN nLyr + 1 ELSE nLyr
           /\ flags' = IF branch = "raise" THEN flags ELSE toolbar_reset
    /\ fields' = Fields(ext, ftype, b, lo, hi, nd)
    /\ UNCHANGED <<controls, nOpen, kind, panelVars, slotVars, splitSaved,
                   pointer, fired, sliderVars, layer_control, dropdown>>

\* whitebox: the import of whiteboxgui (line 326) raises when the package is
\* not installed; otherwise the toolbox control is attached.
ToolWhitebox ==
    /\ GridShown
    /\ ~flags["whitebox"]
    /\ \E ok \in BOOLEAN :
         /\ ok => nOpen < MaxOpens
         /\ raised' = ~ok
         /\ calls' = {}
         /\ IF ok
            THEN /\ nOpen' = nOpen + 1
                 /\ kind' = [kind EXCEPT ![nOpen + 1] = "whitebox"]
                 /\ controls' = add_control(controls, Ctl(nOpen + 1, "whitebox"))
                 /\ whitebox' = Ctl(nOpen + 1, "whitebox")
                 /\ flags' = toolbar_reset
            ELSE /\ flags' = tool_callback_flags(flags, "whitebox")
                 /\ UNCHANGED <<nOpen, kind, controls, whitebox>>
    /\ UNCHANGED <<panelVars, tool_control, basemap_ctrl, save_map_control,
                   tool_output_ctrl, slider_ctrl, splitSaved, pointer, fired,
                   sliderVars, layerVars>>

\* timeslider: m.add_time_slider(), that is time_slider(m).
ToolTimeSlider ==
    /\ GridShown
    /\ ~flags["timeslider"]
    /\ nOpen < MaxOpens
    /\ nOpen' = nOpen + 1
    /\ kind' = [kind EXCEPT ![nOpen + 1] = "timeslider"]
    /\ controls' = add_control(controls, Ctl(nOpen + 1, "timeslider"))
    /\ slider_ctrl' = Ctl(nOpen + 1, "timeslider")
    /\ layers' = add_layer(layers, Lyr(nOpen + 1, "timeslider", 0))
    /\ flags' = toolbar_reset
    /\ raised' = FALSE
    /\ calls' = {}
    /\ UNCHANGED <<panelVars, tool_control, basemap_ctrl, save_map_control,
                   tool_output_ctrl, whitebox, splitSaved, pointer, fired,
                   sliderVars, nLyr, layer_control, fields, dropdown>>

\* save_map: save_map(m).
ToolSaveMap ==
    /\ GridShown
    /\ ~flags["save_map"]
    /\ nOpen < MaxOpens
    /\ nOpen' = nOpen + 1
    /\ kind' = [kind EXCEPT ![nOpen + 1] = "save_map"]
    /\ controls' = add_control(controls, Ctl(nOpen + 1, "save_map"))
    /\ save_map_control' = Ctl(nOpen + 1, "save_map")
    /\ children' = [children EXCEPT ![nOpen + 1] = SaveBare]
    /\ flags' = toolbar_reset
    /\ raised' = FALSE
    /\ calls' = {}
    /\ UNCHANGED <<pin, cbtn, closed, footer, tool_control, basemap_ctrl,
                   tool_output_ctrl, slider_ctrl, whitebox, splitSaved,
                   pointer, fired, sliderVars, layerVars>>

\* eraser (no draw control on the map) and help: nothing is attached; the
\* grid is reset when the callback ends.
ToolPlain(t) ==
    /\ GridShown
    /\ t \in {"eraser", "help"}
    /\ ~flags[t]
    /\ flags' = toolbar_reset
    /\ raised' = FALSE
    /\ calls' = {}
    /\ UNCHANGED <<controls, nOpen, kind, panelVars, slotVars, splitSaved,
                   pointer, fired, sliderVars, layerVars>>

----------------------------------------------------------------------------
\* The layers view of the main toolbar and the save-map panel.

\* Lines 436-451 of layers_btn_click: the layers that are not a TileLayer or
\* a WMSLayer get no row in the layer list; when `len(layers) <
\* len(m.layers) - 1` the built-in LayersControl is created, if
\* m.layer_control is None, and added to the map, if it is not on it.
layers_control_attach(lyrs, ctrls, lc) ==
    LET listed ==
          SelectSeq(lyrs, LAMBDA l : LayerClass(l) \in {"TileLayer", "WMSLayer"})
        c == IF lc = NoCtrl THEN LayersCtl ELSE lc
    IN  IF Len(listed) < Len(lyrs) - 1
        THEN [controls |-> IF InControls(ctrls, c) THEN ctrls
                           ELSE add_control(ctrls, c),
              slot |-> c]
        ELSE [controls |-> ctrls, slot |-> lc]

\* layers_btn_click: the user toggles layers_button.  Going on, the footer
\* shows the layer list and toolbar_button is assigned False (line 499),
\* whose toolbar_btn_click finds layers_button on and leaves the child list.
LayersToggle ==
    /\ Displayed(0)
    /\ children[0] = Expanded
    /\ LET r == IF ~cbtn[0]
                THEN layers_control_attach(layers, controls, layer_control)
                ELSE [controls |-> controls, slot |-> layer_control]
       IN  /\ controls' = r.controls
           /\ layer_control' = r.slot
    /\ cbtn' = [cbtn EXCEPT ![0] = ~cbtn[0]]
    /\ footer' = IF ~cbtn[0] THEN "layers" ELSE "grid"
    /\ pin' = IF ~cbtn[0] THEN [pin EXCEPT ![0] = FALSE] ELSE pin
    /\ children' =
         IF ~cbtn[0] /\ pin[0]
         THEN [children EXCEPT ![0] = toolbar_btn_click(FALSE, cbtn'[0], @)]
         ELSE children
    /\ raised' = FALSE
    /\ calls' = {}
    /\ UNCHANGED <<nOpen, kind, closed, flags, slotVars, splitSaved,
                   pointer, fired, sliderVars, layers, nLyr, fields, dropdown>>

\* Lines 998-1000, 1006-1008 and 1020-1022 of save_map: the control in
\* m.save_map_control is removed when the slot is not None.  There is no
\* membership test: remove_control raises for a control not on the map.
save_map_remove(ctrls, sc) ==
    IF sc = NoCtrl
    THEN [controls |-> ctrls, slot |-> sc, raised |-> FALSE]
    ELSE IF InControls(ctrls, sc)
    THEN [controls |-> remove_control(ctrls, sc), slot |-> NoCtrl,
          raised |-> FALSE]
    ELSE [controls |-> ctrls, slot |-> sc, raised |-> TRUE]

save_map_ok_html(outcome, ctrls, sc) ==
    [controls |-> ctrls, slot |-> sc, raised |-> FALSE,
     calls |-> {Call("to_html", <<>>)}, children |-> SaveReady]

\* Lines 990-1015, the "OK" branch of ok_cancel_clicked of save_map: an HTML
\* export, a PNG / JPG screenshot ("image"), or an extension that does not
\* match the type.  The image branch removes the save-map control, sleeps
\* two seconds in the handler and captures the screen.
save_map_ok(outcome, ctrls, sc) ==
    IF outcome = "html"
    THEN [controls |-> ctrls, slot |-> sc, raised |-> FALSE,
          calls |-> {Call("to_html", <<>>)}, children |-> SaveReady]
    ELSE IF outcome = "image"
    THEN LET r == save_map_remove(ctrls, sc)
         IN  [controls |-> r.controls, slot |-> r.slot, raised |-> r.raised,
              calls |-> IF r.raised THEN {}
                        ELSE {Call("sleep_ui", <<>>),
                              Call("screen_capture", <<>>)},
              children |-> SaveReady]
    ELSE [controls |-> ctrls, slot |-> sc, raised |-> FALSE, calls |-> {},
          children |-> SaveMismatch]

\* chooser_callback of save_map: a file is selected and the button group is
\* shown.
SaveChoose(p) ==
    /\ kind[p] = "save_map"
    /\ Displayed(p)
    /\ children' = [children EXCEPT ![p] = SaveReady]
    /\ raised' = FALSE
    /\ calls' = {}
    /\ UNCHANGED <<controls, nOpen, kind, pin, cbtn, closed, footer, flags,
                   slotVars, splitSaved, pointer, fired, sliderVars, layerVars>>

\* save_type_changed of save_map: the button group is taken off the panel.
SaveTypeChanged(p) ==
    /\ kind[p] = "save_map"
    /\ Displayed(p)
    /\ children' = [children EXCEPT ![p] = SaveBare]
    /\ raised' = FALSE
    /\ calls' = {}
    /\ UNCHANGED <<controls, nOpen, kind, pin, cbtn, closed, footer, flags,
                   slotVars, splitSaved, pointer, fired, sliderVars, layerVars>>

\* ok_cancel_clicked of save_map for "OK", clicked in the button group.  The
\* image branch assigns False to the main toolbar's toolbar_button first;
\* lines 1023-1024 reset the grid unless the handler raised.
SaveMapOK(p, outcome) ==
    /\ kind[p] = "save_map"
    /\ Displayed(p)
    /\ children[p] = SaveReady
    /\ LET r == save_map_ok(outcome, controls, save_map_control)
       IN  /\ controls' = r.controls
           /\ save_map_control' = r.slot
           /\ raised' = r.raised
           /\ calls' = r.calls
           /\ flags' = IF r.raised THEN flags ELSE toolbar_reset
           /\ children' =
                [children EXCEPT
                   ![0] = IF outcome = "image" /\ pin[0]
                          THEN toolbar_btn_click(FALSE, cbtn[0], @) ELSE @,
                   ![p] = r.children]
    /\ pin' = IF outcome = "image" THEN [pin EXCEPT ![0] = FALSE] ELSE pin
    /\ UNCHANGED <<nOpen, kind, cbtn, closed, footer, tool_control,
                   basemap_ctrl, tool_output_ctrl, slider_ctrl, whitebox,
                   splitSaved, pointer, fired, sliderVars, layerVars>>

----------------------------------------------------------------------------
\* The close handlers.  Each returns the control list, the map slot it works
\* on and whether it raised.

\* Lines 157-161 (tool_template), 1356-1360 (census_widget), 1545-1549
\* (search_basemaps), 1740-1744 (download_osm) and the same lines of their
\* button_clicked: the control in m.tool_control is removed and the slot
\* cleared.
tool_close(ctrls, tc) ==
    IF tc # NoCtrl /\ InControls(ctrls, tc)
    THEN [controls |-> remove_control(ctrls, tc), slot |-> NoCtrl,
          raised |-> FALSE]
    ELSE [controls |-> ctrls, slot |-> tc, raised |-> FALSE]

\* close_click of change_basemap, lines 925-926: the slot is kept.
basemap_close(ctrls, bc) ==
    IF bc # NoCtrl /\ InControls(ctrls, bc)
    THEN [controls |-> remove_control(ctrls, bc), slot |-> bc, raised |-> FALSE]
    ELSE [controls |-> ctrls, slot |-> bc, raised |-> FALSE]

\* ok_cancel_clicked of open_data_widget for "Close", lines 862-865.
open_data_close(ctrls, oc) ==
    IF oc # NoCtrl /\ InControls(ctrls, oc)
    THEN [controls |-> remove_control(ctrls, oc), slot |-> NoCtrl,
          raised |-> FALSE]
    ELSE [controls |-> ctrls, slot |-> oc, raised |-> FALSE]

\* close_click of time_slider, lines 1246-1247: the slot is kept.
slider_close(ctrls, sl) ==
    IF sl # NoCtrl /\ InControls(ctrls, sl)
    THEN [controls |-> remove_control(ctrls, sl), slot |-> sl, raised |-> FALSE]
    ELSE [controls |-> ctrls, slot |-> sl, raised |-> FALSE]

\* The close handler of a panel of kind k, run to completion: what it does
\* to the control list, the slots, the grid and the panel's widget.
\* open_data_widget resets the grid only when it removed its control (line
\* 865); save_map skips lines 1023-1024 when remove_control raised.
CloseHandler(p, k) ==
    /\ IF k \in PanelKinds
       THEN LET r == tool_close(controls, tool_control)
            IN  /\ controls' = r.controls
                /\ tool_control' = r.slot
                /\ raised' = r.raised
                /\ flags' = toolbar_reset
                /\ closed' = [closed EXCEPT ![p] = TRUE]
                /\ UNCHANGED <<basemap_ctrl, save_map_control,
                               tool_output_ctrl, slider_ctrl>>
       ELSE IF k = "basemap"
       THEN LET r == basemap_close(controls, basemap_ctrl)
            IN  /\ controls' = r.controls
                /\ basemap_ctrl' = r.slot
                /\ raised' = r.raised
                /\ flags' = toolbar_reset
                /\ closed' = [closed EXCEPT ![p] = TRUE]
                /\ UNCHANGED <<tool_control, save_map_control,
                               tool_output_ctrl, slider_ctrl>>
       ELSE IF k = "save_map"
       THEN LET r == save_map_remove(controls, save_map_control)
            IN  /\ controls' = r.controls
                /\ save_map_control' = r.slot
                /\ raised' = r.raised
                /\ flags' = IF r.raised THEN flags ELSE toolbar_reset
                /\ UNCHANGED <<closed, tool_control, basemap_ctrl,
                               tool_output_ctrl, slider_ctrl>>
       ELSE IF k = "open_data"
       THEN LET r == open_data_close(controls, tool_output_ctrl)
            IN  /\ controls' = r.controls
                /\ tool_output_ctrl' = r.slot
                /\ raised' = r.raised
                /\ flags' = IF r.controls # controls THEN toolbar_reset ELSE flags
                /\ UNCHANGED <<closed, tool_control, basemap_ctrl,
                               save_map_control, slider_ctrl>>
       ELSE LET r == slider_close(controls, slider_ctrl)
            IN  /\ controls' = r.controls
                /\ slider_ctrl' = r.slot
                /\ raised' = r.raised
                /\ flags' = toolbar_reset
                /\ closed' = [closed EXCEPT ![p] = TRUE]
                /\ UNCHANGED <<tool_control, basemap_ctrl, save_map_control,
                               tool_output_ctrl>>
    /\ pointer' = OnScreen(pointer, controls', closed')
    /\ play_chk' =
         IF k = "timeslider" THEN [play_chk EXCEPT ![p] = FALSE] ELSE play_chk
    /\ calls' = {}
    /\ UNCHANGED <<nOpen, kind, children, footer, whitebox, splitSaved,
                   slider, label, layer, custom, tasks, nTasks, layerVars>>

ClosableKinds ==
    PanelKinds \cup {"basemap", "save_map", "open_data", "timeslider"}

\* close_btn_click: the user sets the close toggle of a hover / pin panel.
\* toolbar_button is assigned False first (its toolbar_btn_click finds
\* close_button on and leaves the child list), then the panel is closed.
ToolClose(p) ==
    /\ kind[p] \in PanelKinds
    /\ Displayed(p)
    /\ children[p] = Expanded
    /\ cbtn' = [cbtn EXCEPT ![p] = TRUE]
    /\ pin' = [pin EXCEPT ![p] = FALSE]
    /\ CloseHandler(p, kind[p])
    /\ fired' = fired \cup {p}

\* The "Close" choice of a button group, or the close button of the basemap
\* and time-slider panels.
PanelClose(p) ==
    /\ kind[p] \in (ClosableKinds \ PanelKinds) \cup ButtonsKinds
    /\ Displayed(p)
    /\ kind[p] \in ButtonsKinds => children[p] = Expanded
    /\ kind[p] = "save_map" => children[p] = SaveReady
    /\ CloseHandler(p, kind[p])
    /\ UNCHANGED <<pin, cbtn>>
    /\ fired' = fired \cup {p}

\* The close action of a panel fires once more: a repeated click that was
\* queued behind other events, or the handler run again from the notebook.
CloseAgain(p) ==
    /\ p \in fired
    /\ CloseHandler(p, kind[p])
    /\ UNCHANGED <<pin, cbtn, fired>>

split_restore_keep(saved, ctrls, lyrs) == Saved(ctrls, lyrs)

\* Lines 1106-1108: the control list and the layer list of the map after
\* close_btn_click, from the lists split_basemaps captured.
split_restore(saved, ctrls, lyrs) == Saved(saved.controls, saved.layers)

\* close_btn_click of split_basemaps: the captured control list and layer
\* list are put back.
SplitClose(p) ==
    /\ kind[p] = "split"
    /\ InControls(controls, Ctl(p, "close"))
    /\ ~cbtn[p]
    /\ cbtn' = [cbtn EXCEPT ![p] = TRUE]
    /\ controls' = split_restore(splitSaved[p], controls, layers).controls
    /\ layers' = split_restore(splitSaved[p], controls, layers).layers
    /\ pointer' = OnScreen(pointer, controls', closed)
    /\ raised' = FALSE
    /\ calls' = {}
    /\ UNCHANGED <<nOpen, kind, pin, children, closed, footer, flags,
                   slotVars, splitSaved, fired, sliderVars, nLyr,
                   layer_control, fields, dropdown>>

\* left_change, right_change of split_basemaps (lines 1125-1136): another
\* layer is chosen in a dropdown; its url goes to the layer of that side of
\* the split control, and the map's lists are left alone.
SplitChange(p) ==
    /\ kind[p] = "split"
    /\ InControls(controls, Ctl(p, "left"))
    /\ raised' = FALSE
    /\ calls' = {Call("split_control_url", <<>>)}
    /\ UNCHANGED <<controls, nOpen, kind, panelVars, flags, slotVars,
                   splitSaved, pointer, fired, sliderVars, layerVars>>

search_layers_keep(saved, lyrs) == lyrs

\* Lines 1486 and 1494 of providers_change: m.layers = layers, the list
\* search_basemaps captured (line 1409).
search_layers(saved, lyrs) == saved.layers

\* providers_change of search_basemaps (lines 1472-1499): a provider is
\* chosen in the result list; the captured layers are put back and the
\* provider's tile layer is added.
SearchSelect(p) ==
    /\ kind[p] = "search_xyz"
    /\ Displayed(p)
    /\ children[p] = Expanded
    /\ nLyr < MaxLayers
    /\ layers' = add_layer(search_layers(splitSaved[p], layers),
                           Lyr(p, "xyz", nLyr + 1))
    /\ nLyr' = nLyr + 1
    /\ raised' = FALSE
    /\ calls' = {}
    /\ UNCHANGED <<controls, nOpen, kind, panelVars, flags, slotVars,
                   splitSaved, pointer, fired, sliderVars, layer_control,
                   fields, dropdown>>


----------------------------------------------------------------------------
\* The time slider.

slider_set_unclamped(v) == v

\* An assignment to slider.value: the IntSlider is built with min = 1 and
\* max = len(labels), and a bounded slider caps and floors what it is given.
slider_set(v) == IF v > NLabels THEN NLabels ELSE IF v < 1 THEN 1 ELSE v

\* slider_changed, the observer of slider.value, for new index v on panel p:
\* the label is set first (line 1235); layers_dict[label.value] (line 1236)
\* raises KeyError when the label is not a key of layers_dict.  The layer
\* on the map is the first entry of layers_dict itself (line 1229), so for
\* v = 1 line 1236 assigns the layer's url to itself, and for v > 1 it
\* copies the url of entry v into the layer, that is into entry 1.
slider_changed(p, v) ==
    [label |-> v,
     layer |-> IF custom[p] \/ v = 1 THEN layer[p] ELSE v,
     raised |-> custom[p]]

\* slider.value = v on panel p, run by the UI thread or by a playback
\* thread: the observer runs in the assigning thread, and only when the
\* value changes.
AssignSlider(p, v) ==
    LET nv == slider_set(v)
        r == slider_changed(p, nv)
    IN  IF nv = slider[p]
        THEN /\ raised' = FALSE
             /\ UNCHANGED <<slider, label, layer>>
        ELSE /\ slider' = [slider EXCEPT ![p] = nv]
             /\ label' = [label EXCEPT ![p] = r.label]
             /\ layer' = [layer EXCEPT ![p] = r.layer]
             /\ raised' = r.raised

\* The arguments of a time_slider call: layers_dict is not a dictionary, is
\* empty or has N entries; labels is None, a list of N labels that are not
\* the keys, or a list of another length.
DictArgs == {"notdict", "empty", "dict"}
LabelArgs == {"none", "custom", "short"}

time_slider_checks_none(d, l) == "ok"

\* Lines 1160-1169: the argument checks of time_slider, for a layers_dict
\* that is a dictionary of N entries when it passes line 1164.
time_slider_checks(d, l) ==
    IF d = "notdict" THEN "TypeError"
    ELSE IF l = "short" THEN "ValueError"
    ELSE "ok"

\* time_slider(m, layers_dict, labels) called from the notebook.  For an
\* empty layers_dict planet_monthly_tiles() is called (line 1164), which
\* raises without an API key (tiles = FALSE).  A call that raises in
\* lines 1160-1169 has not reached m.add_layer (line 1230) or
\* m.add_control (line 1253).
TimeSliderCall(d, l) ==
    \E tiles \in BOOLEAN :
      LET chk == IF d = "empty" /\ ~tiles THEN "PlanetKeyError"
                 ELSE time_slider_checks(d, l)
      IN
      /\ (d = "empty") \/ tiles
      /\ IF chk = "ok"
         THEN /\ nOpen < MaxOpens
              /\ Cardinality({p \in Ids : kind[p] = "timeslider"}) < MaxSliders
              /\ nOpen' = nOpen + 1
              /\ kind' = [kind EXCEPT ![nOpen + 1] = "timeslider"]
              /\ layers' = add_layer(layers, Lyr(nOpen + 1, "timeslider", 0))
              /\ controls' = add_control(controls, Ctl(nOpen + 1, "timeslider"))
              /\ slider_ctrl' = Ctl(nOpen + 1, "timeslider")
              /\ custom' = [custom EXCEPT ![nOpen + 1] = (l = "custom")]
              /\ raised' = FALSE
              /\ calls' = {}
         ELSE /\ raised' = TRUE
              /\ calls' = {Call(chk, <<>>)}
              /\ UNCHANGED <<nOpen, kind, layers, controls, slider_ctrl, custom>>
      /\ UNCHANGED <<panelVars, flags, tool_control, basemap_ctrl,
                     save_map_control, tool_output_ctrl, whitebox, splitSaved,
                     pointer, fired, play_chk, slider, label, layer, tasks,
                     nTasks, nLyr, layer_control, fields, dropdown>>

Task(p, c, v) == [panel |-> p, pc |-> c, tmp |-> v]

work_loops_always(chk) == TRUE

\* The test of the loop of work, `while play_chk.value` (line 1212).
work_loops(chk) == chk

\* play_click: the flag is set and a new thread is started, whatever the
\* flag was and whatever threads are alive.
PlayClick(p) ==
    /\ kind[p] = "timeslider"
    /\ Displayed(p)
    /\ nTasks < MaxTasks
    /\ play_chk' = [play_chk EXCEPT ![p] = TRUE]
    /\ tasks' = tasks (+) SetToBag({Task(p, "check", 0)})
    /\ nTasks' = nTasks + 1
    /\ raised' = FALSE
    /\ calls' = {}
    /\ UNCHANGED <<controls, nOpen, kind, panelVars, flags, slotVars,
                   splitSaved, pointer, fired, slider, label, layer, custom,
                   layerVars>>

\* pause_click
PauseClick(p) ==
    /\ kind[p] = "timeslider"
    /\ Displayed(p)
    /\ play_chk' = [play_chk EXCEPT ![p] = FALSE]
    /\ raised' = FALSE
    /\ calls' = {}
    /\ UNCHANGED <<controls, nOpen, kind, panelVars, flags, slotVars,
                   splitSaved, pointer, fired, slider, label, layer, custom,
                   tasks, nTasks, layerVars>>

\* The user moves the slider of a displayed panel to index v.
SliderMove(p, v) ==
    /\ kind[p] = "timeslider"
    /\ Displayed(p)
    /\ v \in 1 .. NLabels
    /\ v # slider[p]
    /\ AssignSlider(p, v)
    /\ calls' = {}
    /\ UNCHANGED <<controls, nOpen, kind, panelVars, flags, slotVars,
                   splitSaved, pointer, fired, play_chk, custom, tasks,
                   nTasks, layerVars>>

\* One step of a playback thread, the function work of play_click.  The
\* thread is at "check" before the test of the loop (line 1212, after the
\* sleep of line 1217 from the second round on), at "test" before line 1213,
\* at "read" before the read of slider.value in line 1214, at "write" before
\* the assignment of line 1214 and at "wrap" before line 1216.  A thread that
\* leaves the loop, or whose assignment raises, is gone; one whose assignment
\* returns sleeps (line 1217) before it is back at "check".
TaskStep(t) ==
    /\ BagIn(t, tasks)
    /\ LET p == t.panel
           rest == tasks (-) SetToBag({t})
           Go(c, v) == rest (+) SetToBag({Task(p, c, v)})
       IN  CASE t.pc = "check" ->
                  /\ tasks' = IF work_loops(play_chk[p]) THEN Go("test", 0) ELSE rest
                  /\ raised' = FALSE
                  /\ UNCHANGED <<slider, label, layer>>
             [] t.pc = "test" ->
                  /\ tasks' = IF slider[p] < NLabels
                               THEN Go("read", 0) ELSE Go("wrap", 0)
                  /\ raised' = FALSE
                  /\ UNCHANGED <<slider, label, layer>>
             [] t.pc = "read" ->
                  /\ tasks' = Go("write", slider[p])
                  /\ raised' = FALSE
                  /\ UNCHANGED <<slider, label, layer>>
             [] t.pc = "write" ->
                  /\ AssignSlider(p, t.tmp + 1)
                  /\ tasks' = IF raised' THEN rest ELSE Go("check", 0)
             [] t.pc = "wrap" ->
                  /\ AssignSlider(p, 1)
                  /\ tasks' = IF raised' THEN rest ELSE Go("check", 0)
    /\ calls' =
         IF t.pc \in {"write", "wrap"} /\ ~raised'
         THEN {Call("sleep_work", <<>>)} ELSE {}
    /\ UNCHANGED <<controls, nOpen, kind, panelVars, flags, slotVars,
                   splitSaved, pointer, fired, play_chk, custom, nTasks,
                   layerVars>>

\* The live playback threads of panel p.
TasksOf(p) == {t \in BagToSet(tasks) : t.panel = p}

\* The records a playback thread can be.
TaskRecs ==
    {Task(p, c, v) :
       p \in Ids, c \in {"check", "test", "read", "write", "wrap"},
       v \in 0 .. NLabels}

----------------------------------------------------------------------------
\* The specifications.

\* Pointer events, pin and layers toggles of the displayed panels.
HoverEvents ==
    \/ \E p \in Ids : PointerEnter(p)
    \/ \E p \in Ids : PointerLeave(p)
    \/ \E p \in Ids : PinToggle(p)
    \/ \E p \in Ids : PinAgain(p)
    \/ LayersToggle

\* The activations that build a hover / pin panel or act on the pin of one.
PanelTools ==
    \/ \E t \in Tools : ToolPanel(t)
    \/ ToolTemplate
    \/ ToolSaveMap
    \/ \E p \in Ids : SaveChoose(p)
    \/ \E p \in Ids : SaveTypeChanged(p)
    \/ \E p \in Ids : \E o \in {"html", "image", "mismatch"} : SaveMapOK(p, o)

\* The other activations of the grid.
OtherTools ==
    \/ \E t \in Tools : ToolOff(t)
    \/ ToolBasemap
    \/ \E t \in Tools : ToolSplit(t)
    \/ ToolOpenData
    \/ ToolWhitebox
    \/ ToolTimeSlider
    \/ \E t \in Tools : ToolPlain(t)
    \/ \E p \in Ids : SplitClose(p)

\* The handlers of the basemap, split and search panels that act on the
\* map's layers.
BasemapEvents ==
    \/ \E p \in Ids : \E b \in BasemapNames : BasemapSelect(p, b)
    \/ \E p \in Ids : SplitChange(p)
    \/ \E p \in Ids : SearchSelect(p)

Closes ==
    \/ \E p \in Ids : ToolClose(p)
    \/ \E p \in Ids : PanelClose(p)
    \/ \E p \in Ids : CloseAgain(p)

\* The time slider: its construction from a dictionary of N layers, its
\* buttons and its threads.
SliderEvents ==
    \/ \E l \in {"none", "custom"} : TimeSliderCall("dict", l)
    \/ \E p \in Ids : PlayClick(p)
    \/ \E p \in Ids : PauseClick(p)
    \/ \E p \in Ids : \E v \in 1 .. NLabels : SliderMove(p, v)
    \/ \E t \in BagToSet(tasks) : TaskStep(t)

\* The handlers that add layers to the map, and the constructors called
\* without a map.
LayerEvents ==
    \/ \E p \in Ids : \E e \in Exts : \E f \in FileTypes :
         \E b \in BandTexts : \E lo, hi, nd \in FloatTexts :
           OpenDataApply(p, e, f, b, lo, hi, nd)
    \/ \E p \in Ids : \E r \in BOOLEAN : CensusSelect(p, r)
    \/ \E k \in PanelKinds : NoMapCall(k)

\* time_slider called with every kind of argument.
SliderCalls == \E d \in DictArgs : \E l \in LabelArgs : TimeSliderCall(d, l)

Next ==
    \/ HoverEvents \/ PanelTools \/ OtherTools \/ Closes \/ SliderEvents
    \/ LayerEvents \/ SliderCalls \/ BasemapEvents

\* Every handler of the model.
Spec == Init /\ [][Next]_vars

\* The handlers that read or write a panel's pin, close flag or child list.
\* The activations left out write none of them.
HoverNext == HoverEvents \/ PanelTools \/ Closes

SpecHover == Init /\ [][HoverNext]_vars

\* The handlers that read or write the map's control list, its slots or the
\* grid flags, with the pointer entering the main toolbar to show the grid.
\* The events left out write none of them.
ToolsNext == PointerEnter(0) \/ PanelTools \/ OtherTools \/ Closes

SpecTools == Init /\ [][ToolsNext]_vars

\* The handlers and threads that read or write the index, the label, the
\* layer or the flag of a time slider.  close_click clears the flag as
\* pause_click does and writes none of the others; it is in CallsNext and
\* ToolsNext.
SliderNext == SliderEvents

SpecSlider == Init /\ [][SliderNext]_vars

\* A step of one of the threads of panel p.  Threads that can run are
\* scheduled: the threads of a panel are not all passed over for ever.
TaskOf(p) == \E t \in TasksOf(p) : TaskStep(t)

\* The play and pause buttons of a time slider, and its threads.
PlaybackNext ==
    \/ \E l \in {"none", "custom"} : TimeSliderCall("dict", l)
    \/ \E p \in Ids : PlayClick(p)
    \/ \E p \in Ids : PauseClick(p)
    \/ \E t \in BagToSet(tasks) : TaskStep(t)

SpecSliderFair ==
    /\ Init /\ [][PlaybackNext]_vars
    /\ \A p \in Ids : WF_vars(TaskOf(p))

\* The open-data panel: its construction, Apply on a .tif or .img file of
\* type Raster with every content of the numeric fields, and Close.
DataNext ==
    \/ PointerEnter(0)
    \/ ToolOpenData
    \/ \E p \in Ids : \E e \in {".tif", ".img"} :
         \E b \in BandTexts : \E lo, hi, nd \in FloatTexts :
           OpenDataApply(p, e, "Raster", b, lo, hi, nd)
    \/ \E p \in Ids : PanelClose(p)

SpecData == Init /\ [][DataNext]_vars

\* The handlers that change m.layers or read it, with the constructors of
\* the panels they belong to: the census panel, a shapefile opened in the
\* open-data panel and the layers view.
LayersNext ==
    \/ PointerEnter(0)
    \/ LayersToggle
    \/ \E t \in Tools : ToolPanel(t)
    \/ \E k \in PanelKinds : NoMapCall(k)
    \/ ToolOpenData
    \/ \E p \in Ids : OpenDataApply(p, ".shp", "Shapefile", <<>>, <<>>, <<>>, <<>>)
    \/ \E p \in Ids : \E r \in BOOLEAN : CensusSelect(p, r)
    \/ \E p \in Ids : ToolClose(p)

SpecLayers == Init /\ [][LayersNext]_vars

\* The calls of time_slider, accepted or refused, with the handlers of the
\* panels it builds; the playback threads are started and not run.
CallsNext ==
    \/ SliderCalls
    \/ \E p \in Ids : PlayClick(p)
    \/ \E p \in Ids : PauseClick(p)
    \/ \E p \in Ids : \E v \in 1 .. NLabels : SliderMove(p, v)
    \/ \E p \in Ids : PanelClose(p)

SpecCalls == Init /\ [][CallsNext]_vars

\* The panels that put layers back or replace them: basemap, split and
\* search, with the census panel as a panel that adds layers of its own.
BasemapsNext ==
    \/ PointerEnter(0)
    \/ ToolBasemap
    \/ \E t \in Tools : ToolSplit(t)
    \/ \E t \in Tools : ToolPanel(t)
    \/ BasemapEvents
    \/ \E p \in Ids : SplitClose(p)
    \/ \E p \in Ids : PanelClose(p)
    \/ \E p \in Ids : ToolClose(p)

SpecBasemaps == Init /\ [][BasemapsNext]_vars

----------------------------------------------------------------------------
\* The claims.

Live(p) == kind[p] \in HoverKinds /\ Displayed(p)

Attached(p) == kind[p] \in HoverKinds /\ InControls(controls, OwnCtl(p))

\* C1: with the pin off, a pointer-enter leaves the panel Expanded and a
\* pointer-leave leaves it Collapsed, whatever the events before it were; so
\* after any sequence of the two the panel is Expanded iff the last one was
\* pointer-enter.
C1_LastPointerEventDecides ==
    [][\A p \in Ids :
         /\ (~pin[p] /\ PointerEnter(p)) => children'[p] = Expanded
         /\ (~pin[p] /\ PointerLeave(p)) => children'[p] = Collapsed]_vars

C1_Witness ==
    \E p \in Ids :
        /\ kind[p] \in PanelKinds /\ Live(p)
        /\ ~pin[p] /\ p \in pointer /\ children[p] = Expanded

C3_Original ==
    [][\A p \in Ids :
         (kind[p] = "none" /\ kind'[p] \in PanelKinds)
           => children'[p] = Collapsed]_vars

\* C3 as amended: a tool panel is Expanded, with its pin on and its close
\* button off, when its constructor returns.
C3_Amended ==
    [][\A p \in Ids :
         (kind[p] = "none" /\ kind'[p] \in PanelKinds)
           => (children'[p] = Expanded /\ pin'[p] /\ ~cbtn'[p])]_vars

C3_Witness ==
    \E p \in Ids :
        /\ kind[p] \in PanelKinds /\ Live(p) /\ p = nOpen
        /\ tool_control = OwnCtl(p)
        /\ pin[p] /\ children[p] = Expanded /\ p \notin pointer

\* C4: a panel whose widget is not closed and whose pin is on is Expanded.
C4_PinnedIsExpanded ==
    \A p \in Ids :
        (kind[p] \in HoverKinds /\ ~closed[p] /\ pin[p])
          => children[p] = Expanded

C4_Witness ==
    \E p \in Ids :
        /\ Live(p) /\ pin[p] /\ children[p] = Expanded
        /\ p \notin pointer /\ pointer # {}

\* C5: turning the pin off while the close / layers flag is off and the
\* pointer is not over the panel collapses the panel in that step.
C5_UnpinOutsideCollapses ==
    [][\A p \in Ids :
         (PinToggle(p) /\ pin[p] /\ ~cbtn[p] /\ p \notin pointer)
           => children'[p] = Collapsed]_vars

C5_Witness ==
    \E p \in Ids :
        /\ kind[p] \in PanelKinds /\ Live(p)
        /\ ~pin[p] /\ ~cbtn[p] /\ p \notin pointer /\ children[p] = Collapsed

\* C6: once a tool panel's close action has fired, the panel's own control
\* is not in the map's control list.
C6_OwnControlDetached ==
    \A p \in Ids :
        (kind[p] \in PanelKinds /\ closed[p])
          => ~InControls(controls, OwnCtl(p))

\* C7: the panels of two different tools of the grid (census, search_xyz,
\* download_osm) are never attached to the map together.
C7_AtMostOneToolPanel ==
    \A i, j \in DOMAIN controls :
        (controls[i].role \in PanelKinds \cap Tools
           /\ controls[j].role \in PanelKinds \cap Tools)
          => controls[i].role = controls[j].role

\* C8: no two tool buttons of the grid are on once an activation has been
\* processed.
C8_AtMostOneFlag ==
    Cardinality({t \in Tools : flags[t]}) <= 1

\* A dispatch raised after tool_callback had found another button on and
\* cleared the grid.
C8_Witness ==
    /\ raised
    /\ \A t \in Tools : ~flags[t]

\* C9: a close action that fires again for a panel that has closed and whose
\* control is off the map does not raise and leaves the map's control list
\* as it was.
C9_SecondCloseIsNoOp ==
    [][\A p \in Ids :
         (CloseAgain(p) /\ ~InControls(controls, OwnCtl(p)))
           => (controls' = controls /\ ~raised')]_vars

\* C10 as stated: no two panels attached to the map are both pinned.
C10_Original ==
    \A p, q \in Ids :
        (p # q /\ Attached(p) /\ Attached(q)) => ~(pin[p] /\ pin[q])

\* C10 as amended: turning the pin of a panel on expands the panel, clears
\* the panel's own close / layers flag and leaves the pin of every other
\* panel as it was.
C10_Amended ==
    [][\A p \in Ids :
         (PinToggle(p) /\ ~pin[p])
           => /\ pin'[p] /\ ~cbtn'[p] /\ children'[p] = Expanded
              /\ \A q \in Ids \ {p} : pin'[q] = pin[q]]_vars

C10_Witness ==
    \E p, q \in Ids :
        /\ p = 0 /\ q # 0 /\ Live(p) /\ Live(q)
        /\ pin[p] /\ pin[q]

\* C11: the child list of a panel is one of the two trees, [toolbar_button]
\* or [toolbar_header, toolbar_footer], in every reachable state.
C11_OneOfTwoTrees ==
    \A p \in Ids :
        kind[p] \in HoverKinds => children[p] \in {Collapsed, Expanded}

C11_Witness ==
    \E p \in Ids :
        /\ kind[p] \in PanelKinds /\ Live(p)
        /\ children[p] = Collapsed /\ children[0] = Expanded /\ pin[0]

C13_IndexInRange ==
    \A p \in Ids : slider[p] \in 1 .. NLabels

\* A thread that read the index N - 1 is about to write N to a slider that
\* is at N already.
C13_Witness ==
    \E p \in Ids :
        /\ slider[p] = NLabels
        /\ \E t \in TasksOf(p) : t.pc = "write" /\ t.tmp = NLabels

\* C14: the assignment of an advance made when the index is N sets it to 1,
\* and made when the index is i < N sets it to i + 1.
C14_AdvanceWraps ==
    [][\A t \in TaskRecs :
         (TaskStep(t) /\ t.pc \in {"write", "wrap"})
           => slider'[t.panel] =
                IF slider[t.panel] = NLabels THEN 1
                ELSE slider[t.panel] + 1]_vars

\* C15: at most one playback thread of a panel is alive.
C15_AtMostOneTask ==
    \A p \in Ids :
        BagCardinality([t \in TasksOf(p) |-> CopiesIn(t, tasks)]) <= 1

\* C16: a playback thread does not change the index while the flag is
\* cleared.
C16_NoAdvanceAfterPause ==
    [][\A t \in TaskRecs :
         (TaskStep(t) /\ ~play_chk[t.panel])
           => slider'[t.panel] = slider[t.panel]]_vars

C18_CloseDetaches ==
    [][\A p \in Ids :
         (PanelClose(p) /\ kind[p] = "timeslider")
           => (~play_chk'[p] /\ ~InControls(controls', OwnCtl(p)))]_vars

\* C19: a playback thread writes neither the label nor the layer.
C19_TaskWritesNoWidget ==
    [][(\E t \in TaskRecs : TaskStep(t))
         => (label' = label /\ layer' = layer)]_vars

\* C20: the flag of a panel is not set while no playback thread of the
\* panel is alive.
C20_FlagHasTask ==
    \A p \in Ids : play_chk[p] => TasksOf(p) # {}

\* The flag of panel p is set and exactly one playback thread of p is alive.
OneTaskRuns(p) ==
    /\ play_chk[p]
    /\ BagCardinality([t \in TasksOf(p) |-> CopiesIn(t, tasks)]) = 1

\* C21: while the flag of a panel is set and exactly one playback thread of
\* the panel runs, a step of the thread does not end the thread, and from
\* every index i the index reaches the next one of the cycle 1, 2, ..., N, 1
\* (so each index is taken again and again).
C21_PlaybackCycles ==
    /\ [][\A t \in TaskRecs :
            (TaskStep(t) /\ OneTaskRuns(t.panel))
              => {u \in BagToSet(tasks') : u.panel = t.panel} # {}]_vars
    /\ \A p \in Ids : \A i \in 1 .. NLabels :
         (OneTaskRuns(p) /\ slider[p] = i)
           ~> (~OneTaskRuns(p) \/ slider[p] = (i % NLabels) + 1)

\* The band text does not parse as an int, a float field not as a float.
BadBand(b) == Len(b) > 0 /\ ~int_ok(b)
BadFloat(f) == Len(f) > 0 /\ ~float_ok(f)

\* The step is an Apply of the open-data panel that takes the raster
\* branch, with the field texts now in `fields`.
RasterApply ==
    /\ raster_ext(fields'.ext) /\ fields'.ftype = "Raster"
    /\ \E p \in Ids :
         OpenDataApply(p, fields'.ext, fields'.ftype, fields'.bands,
                       fields'.vmin, fields'.vmax, fields'.nodata)

GoodBand(b) == Len(b) > 0 /\ int_ok(b)
GoodFloat(f) == Len(f) > 0 /\ float_ok(f)

\* C23: an Apply that takes the raster branch passes every numeric field
\* whose text is not empty and parses to add_local_tile with its parsed
\* value, whatever the other three fields hold.
C23_BestEffortPerField ==
    [][RasterApply
         => \E c \in calls' :
              /\ c.fn = "add_local_tile"
              /\ GoodBand(fields'.bands)
                   => c.args[1] = <<int_val(fields'.bands)>>
              /\ GoodFloat(fields'.vmin) => c.args[2] = float_val(fields'.vmin)
              /\ GoodFloat(fields'.vmax) => c.args[3] = float_val(fields'.vmax)
              /\ GoodFloat(fields'.nodata)
                   => c.args[4] = float_val(fields'.nodata)]_vars

\* C24: OK with a file whose extension does not match the export type does
\* not raise, calls neither to_html nor screen_capture, removes no control,
\* and leaves the panel with [save_type, file_chooser, label].
C24_MismatchShowsLabel ==
    [][\A p \in Ids :
         SaveMapOK(p, "mismatch")
           => /\ ~raised' /\ calls' = {}
              /\ controls' = controls
              /\ save_map_control' = save_map_control
              /\ children'[p] = SaveMismatch]_vars

C24_Witness ==
    \E p \in Ids :
        /\ kind[p] = "save_map" /\ Displayed(p)
        /\ children[p] = SaveMismatch /\ calls = {} /\ ~raised
        /\ save_map_control = OwnCtl(p)

\* C25: no handler of a panel sleeps; only the playback thread does.
C25_NoSleepInHandlers ==
    \A c \in calls : c.fn # "sleep_ui"

\* C26: time_slider raises TypeError for a layers_dict that is not a
\* dictionary and ValueError for a dictionary with another number of labels,
\* and then no layer is added, no control attached and m.slider_ctrl not
\* assigned.
C26_BadArgumentsLeaveMap ==
    [][\A d \in DictArgs : \A l \in LabelArgs :
         (TimeSliderCall(d, l) /\ (d = "notdict" \/ (d = "dict" /\ l = "short")))
           => /\ raised'
              /\ calls' = {Call(IF d = "notdict" THEN "TypeError"
                                ELSE "ValueError", <<>>)}
              /\ layers' = layers
              /\ controls' = controls
              /\ slider_ctrl' = slider_ctrl]_vars

\* A call was refused while the time slider of an earlier call is on the map.
C26_Witness ==
    /\ raised /\ calls = {Call("ValueError", <<>>)}
    /\ \E p \in Ids : kind[p] = "timeslider" /\ Displayed(p)
    /\ Len(layers) = 2

\* C27: a constructor of a hover / pin panel called with m = None does not
\* raise, returns its widget and touches nothing of a map.
C27_NoMapReturnsWidget ==
    [][\A k \in PanelKinds :
         NoMapCall(k)
           => /\ ~raised'
              /\ kind'[nOpen + 1] = k
              /\ controls' = controls /\ layers' = layers
              /\ tool_control' = tool_control]_vars

\* C28: a census selection with the replace box checked removes no layer
\* that is not a census layer and leaves the number of layers as it was.
C28_ReplacesCensusLayerOnly ==
    [][\A p \in Ids :
         CensusSelect(p, TRUE)
           => /\ Len(layers') = Len(layers)
              /\ \A i \in DOMAIN layers :
                   (\A j \in DOMAIN layers' : layers'[j] # layers[i])
                     => layers[i].role = "census"]_vars

\* C29: opening the layers view on a map with a layer that is neither a
\* TileLayer nor a WMSLayer leaves the LayersControl on the map, and the
\* LayersControl is never on the map twice.
C29_LayersControlAttached ==
    /\ [][(/\ LayersToggle /\ ~cbtn[0]
           /\ \E i \in DOMAIN layers :
                LayerClass(layers[i]) \notin {"TileLayer", "WMSLayer"})
            => InControls(controls', LayersCtl)]_vars
    /\ [](Cardinality({i \in DOMAIN controls : controls[i] = LayersCtl}) <= 1)

\* C30: with the keys of layers_dict as labels, the layer on the map shows
\* the url the entry at the index had when time_slider was called.
C30_LayerShowsIndex ==
    \A p \in Ids :
        (kind[p] = "timeslider" /\ ~custom[p]) => layer[p] = slider[p]

\* C31: with labels of the caller, a slider change to index i does not
\* raise, sets the label to labels[i-1] and shows the i-th layer.
C31_CustomLabelsChange ==
    [][\A p \in Ids : \A v \in 1 .. NLabels :
         (SliderMove(p, v) /\ custom[p])
           => (~raised' /\ label'[p] = v /\ layer'[p] = v)]_vars

\* C32: when two panels on m.tool_control are attached and the close action
\* of the one opened first fires, the control of the one opened later stays
\* on the map.
C32_CloseKeepsLaterPanel ==
    [][\A p, q \in Ids :
         (/\ p < q /\ kind[p] \in PanelKinds /\ kind[q] \in PanelKinds
          /\ InControls(controls, OwnCtl(p)) /\ InControls(controls, OwnCtl(q))
          /\ (ToolClose(p) \/ PanelClose(p)))
           => InControls(controls', OwnCtl(q))]_vars

\* The open-data controls on the map.
OpenDataAttached ==
    {p \in Ids : kind[p] = "open_data" /\ InControls(controls, OwnCtl(p))}

\* C36: at most one open-data control is on the map, m.tool_output_ctrl is
\* that control whenever there is one, and after Close there is none and
\* m.tool_output_ctrl is None.
C36_OneOpenDataControl ==
    /\ [](/\ Cardinality(OpenDataAttached) <= 1
          /\ \A p \in OpenDataAttached : tool_output_ctrl = OwnCtl(p))
    /\ [][\A p \in Ids :
            (kind[p] = "open_data" /\ (PanelClose(p) \/ CloseAgain(p)))
              => (OpenDataAttached' = {} /\ tool_output_ctrl' = NoCtrl)]_vars

\* The open-data panel was opened a second time while the first was on the
\* map, and the second control is attached.
C36_Witness ==
    /\ kind[1] = "open_data" /\ kind[2] = "open_data"
    /\ OpenDataAttached = {2}

C34_LayerCountConstant ==
    [][(/\ nOpen >= 1
        /\ \A q \in 1 .. nOpen' : kind'[q] = "basemap")
         => /\ Len(layers') = Len(layers)
            /\ \A p \in Ids :
                 (\E b \in BasemapNames : BasemapSelect(p, b))
                   => layers'[2] = Basemap(dropdown'[p])]_vars

\* The tile layers on the map that the search panel p added.
SearchResults(p) ==
    {i \in 1 .. Len(layers) : layers[i].role = "xyz" /\ layers[i].id = p}

\* C35: search_basemaps captures the layers of the map when the panel is
\* opened; after a provider is selected the layers are the captured ones,
\* in order, followed by the tile layer of that provider, and no panel has
\* more than one result on the map.
C35_SearchKeepsOneResult ==
    /\ [](\A p \in Ids : Cardinality(SearchResults(p)) <= 1)
    /\ [][/\ (ToolPanel("search_xyz") /\ nOpen' = nOpen + 1)
               => splitSaved'[nOpen'].layers = layers
          /\ \A p \in Ids :
               kind[p] = "search_xyz" => splitSaved'[p] = splitSaved[p]
          /\ \A p \in Ids :
               SearchSelect(p)
                 => layers' = Append(splitSaved[p].layers,
                                     Lyr(p, "xyz", nLyr'))]_vars

\* A second provider was selected in a search panel opened on a map with
\* one layer: the map has that layer and the second result.
C35_Witness ==
    \E p \in Ids :
      /\ kind[p] = "search_xyz"
      /\ layers = <<BaseLayer, Lyr(p, "xyz", 2)>>

====
